---- MODULE Spec2Model ----
(***************************************************************************)
(* Threshold-based alert pipeline of the industrial monitoring system:     *)
(* SensorProcessor (validation, threshold evaluation, severity),           *)
(* AlertGenerator / AlertRepository (generate, query, acknowledge) and the *)
(* ingestion endpoint POST /api/sensors/readings.                          *)
(*                                                                         *)
(* Sensor values and thresholds are integers (the configured bounds are    *)
(* whole numbers); a percent deviation is kept as the exact fraction       *)
(* num/den * 100 and compared by cross-multiplication.                     *)
(***************************************************************************)
EXTENDS Integers, Sequences, FiniteSets, TLC

VARIABLES
    clock,      \* wall clock (datetime.now / CURRENT_TIMESTAMP), in ticks
    equipment,  \* Equipment Directory: the equipment ids that resolve
    alerts,     \* Alert Store: rows of table alerts, row i has id i
    last,       \* outcome of the service call that ran last
    ack,        \* per user: the acknowledge_alert call that user's request runs
    readings,   \* Reading Store: rows of table sensor_readings
    evalIn,     \* the reading check_thresholds was last applied to
    evalOut,    \* what check_thresholds made of it
    txn,        \* the open transaction of the one shared connection
    req         \* per server thread: the request it runs, statement by statement

vars == <<clock, equipment, alerts, last, ack, readings, evalIn, evalOut, txn, req>>

-----------------------------------------------------------------------------
(* Bounds of the model *)

MaxClock == 1
MaxAlerts == 2
\* alerts in the store when the listings are checked
MaxQueryAlerts == 3
\* readings the ingestion endpoint stores
MaxReadings == 2
\* sensor values evaluated lie in -MaxAbsValue..MaxAbsValue
MaxAbsValue == 400

-----------------------------------------------------------------------------
(* Values *)

\* SQL NULL in a text column / Python None
Null == "NULL"
\* SQL NULL in a timestamp column
NullTime == -1

\* a Python value passed as `message`: its type and its repr
Str(s) == [type |-> "str", repr |-> s]
NonStr(t, r) == [type |-> t, repr |-> r]

\* bool(message): the empty string, None and 0 are falsy
Truthy(m) ==
    CASE m.type = "str" -> m.repr # ""
      [] m.type = "NoneType" -> FALSE
      [] OTHER -> m.repr # "0"

-----------------------------------------------------------------------------
(* AlertGenerator class constants *)

VALID_ALERT_TYPES ==
    <<"threshold_exceeded", "equipment_failure", "maintenance_due",
      "communication_error", "sensor_malfunction">>

VALID_SEVERITIES == <<"low", "medium", "high", "critical">>

Range(s) == {s[i] : i \in DOMAIN s}

-----------------------------------------------------------------------------
(* EquipmentRepository *)

\* get_by_id: the row, or None
EquipmentRepository_get_by_id(dir, equipment_id) ==
    IF equipment_id \in dir THEN equipment_id ELSE Null

-----------------------------------------------------------------------------
(* AlertRepository: each method is one statement on the alerts table *)

\* the rowid SQLite gives the next inserted row: one more than the largest
NextRowId(store) ==
    IF store = <<>> THEN 1
    ELSE 1 + CHOOSE m \in {store[i].id : i \in DOMAIN store} :
                 \A i \in DOMAIN store : store[i].id <= m

\* created_at is not among the INSERT's columns: the table's default, the
\* time of the insert
CreatedAtDefault(now) == now

\* the INSERT with alert_type and severity bound to each other's column
AlertRepository_create_swapped(store, alert, now) ==
    Append(store,
        [id |-> NextRowId(store),
         equipment_id |-> alert.equipment_id,
         alert_type |-> alert.severity,
         severity |-> alert.alert_type,
         message |-> alert.message,
         status |-> alert.status,
         acknowledged_by |-> Null,
         acknowledged_at |-> NullTime,
         created_at |-> CreatedAtDefault(now)])

\* INSERT INTO alerts (equipment_id, alert_type, severity, message, status):
\* the id is the next rowid, the acknowledged_* columns stay NULL
AlertRepository_create(store, alert, now) ==
    Append(store,
        [id |-> NextRowId(store),
         equipment_id |-> alert.equipment_id,
         alert_type |-> alert.alert_type,
         severity |-> alert.severity,
         message |-> alert.message,
         status |-> alert.status,
         acknowledged_by |-> Null,
         acknowledged_at |-> NullTime,
         created_at |-> CreatedAtDefault(now)])

\* SELECT * FROM alerts WHERE id = ? : the row, or <<>> for None
AlertRepository_get_by_id(store, alert_id) ==
    SelectSeq(store, LAMBDA r : r.id = alert_id)

\* an acknowledge that removes the row from the table
AlertRepository_acknowledge_delete(store, alert_id, user, now) ==
    SelectSeq(store, LAMBDA r : r.id # alert_id)

\* the UPDATE without its WHERE id = ?
AlertRepository_acknowledge_all(store, alert_id, user, now) ==
    [i \in DOMAIN store |->
        [store[i] EXCEPT !.status = "acknowledged",
                         !.acknowledged_by = user,
                         !.acknowledged_at = now]]

\* UPDATE alerts SET status = 'acknowledged', acknowledged_by = ?,
\* acknowledged_at = ? WHERE id = ? ; the new table
AlertRepository_acknowledge(store, alert_id, user, now) ==
    [i \in DOMAIN store |->
        IF store[i].id = alert_id
        THEN [store[i] EXCEPT !.status = "acknowledged",
                              !.acknowledged_by = user,
                              !.acknowledged_at = now]
        ELSE store[i]]

\* rows_affected of that UPDATE
AlertRepository_acknowledge_rows(store, alert_id) ==
    Cardinality({i \in DOMAIN store : store[i].id = alert_id})

\* ORDER BY severity: the alphabetical order of the names
SeverityRank_alphabetical(severity) ==
    CASE severity = "critical" -> 1
      [] severity = "high" -> 2
      [] severity = "low" -> 3
      [] severity = "medium" -> 4
      [] OTHER -> 5

\* CASE severity WHEN 'critical' THEN 1 ... ELSE 5 END
SeverityRank(severity) ==
    CASE severity = "critical" -> 1
      [] severity = "high" -> 2
      [] severity = "medium" -> 3
      [] severity = "low" -> 4
      [] OTHER -> 5

\* The order SQLite gives two rows that are equal under ORDER BY is not
\* specified: `tb` is the order it picks among such rows.
TieBreaks == {"rowid_asc", "rowid_desc"}

\* ORDER BY CASE severity ... END, created_at DESC : does row a sort before b
ActiveOrderBefore(a, b, tb) ==
    \/ SeverityRank(a.severity) < SeverityRank(b.severity)
    \/ /\ SeverityRank(a.severity) = SeverityRank(b.severity)
       /\ \/ a.created_at > b.created_at
          \/ /\ a.created_at = b.created_at
             /\ IF tb = "rowid_asc" THEN a.id < b.id ELSE a.id > b.id

\* the rows of `rows` in the order `Before`: a row's position is the number
\* of rows that sort before it
SortRows(rows, Before(_, _)) ==
    [k \in 1..Cardinality(rows) |->
        CHOOSE r \in rows :
            Cardinality({q \in rows : Before(q, r)}) = k - 1]

\* the listing without WHERE status = 'active'
AlertRepository_get_active_alerts_unfiltered(store, tb) ==
    SortRows({store[i] : i \in DOMAIN store},
             LAMBDA a, b : ActiveOrderBefore(a, b, tb))

\* SELECT * FROM alerts WHERE status = 'active' ORDER BY ...
AlertRepository_get_active_alerts(store, tb) ==
    SortRows({store[i] : i \in {j \in DOMAIN store : store[j].status = "active"}},
             LAMBDA a, b : ActiveOrderBefore(a, b, tb))

\* ORDER BY created_at DESC : does row a sort before b
CreatedOrderBefore(a, b, tb) ==
    \/ a.created_at > b.created_at
    \/ /\ a.created_at = b.created_at
       /\ IF tb = "rowid_asc" THEN a.id < b.id ELSE a.id > b.id

\* the listing of one equipment restricted to the active alerts
AlertRepository_get_by_equipment_active(store, equipment_id, tb) ==
    SortRows({store[i] : i \in {j \in DOMAIN store :
                                   /\ store[j].equipment_id = equipment_id
                                   /\ store[j].status = "active"}},
             LAMBDA a, b : CreatedOrderBefore(a, b, tb))

\* SELECT * FROM alerts WHERE equipment_id = ? ORDER BY created_at DESC
AlertRepository_get_by_equipment(store, equipment_id, tb) ==
    SortRows({store[i] : i \in {j \in DOMAIN store :
                                   store[j].equipment_id = equipment_id}},
             LAMBDA a, b : CreatedOrderBefore(a, b, tb))

\* SELECT * FROM alerts ORDER BY created_at DESC
AlertRepository_get_all(store, tb) ==
    SortRows({store[i] : i \in DOMAIN store},
             LAMBDA a, b : CreatedOrderBefore(a, b, tb))

-----------------------------------------------------------------------------
(* SensorProcessor *)

REQUIRED_FIELDS == <<"equipment_id", "sensor_type", "value">>

VALID_SENSOR_TYPES ==
    <<"temperature", "pressure", "vibration", "flow_rate",
      "rpm", "voltage", "current", "humidity">>

DEFAULT_THRESHOLDS ==
    [temperature |-> [max |-> 80, min |-> -10],
     pressure |-> [max |-> 150, min |-> 0],
     vibration |-> [max |-> 10, min |-> 0],
     flow_rate |-> [max |-> 1000, min |-> 0],
     rpm |-> [max |-> 5000, min |-> 0],
     voltage |-> [max |-> 250, min |-> 0],
     current |-> [max |-> 100, min |-> 0],
     humidity |-> [max |-> 100, min |-> 0]]

\* the `thresholds` argument of the constructor: None, or a dict
NoThresholds == [type |-> "NoneType", table |-> [k \in {} |-> 0]]
Thresholds(table) == [type |-> "dict", table |-> table]

\* SensorProcessor.__init__: self.thresholds = thresholds or DEFAULT_THRESHOLDS;
\* None and the empty dict are falsy
SensorProcessor_init(thresholds) ==
    IF thresholds.type = "NoneType" \/ DOMAIN thresholds.table = {}
    THEN DEFAULT_THRESHOLDS
    ELSE thresholds.table

\* a number as a reading's value, a text that is no number, None
Num(n) == [type |-> "float", v |-> n]
NotANumber == [type |-> "str", v |-> 0]
NoValue == [type |-> "NoneType", v |-> 0]

\* str(float(n)) of a whole number
FloatStr(n) == ToString(n) \o ".0"

\* a percentage kept exact: num / den
PercentOver(value, threshold, threshold_type) ==
    IF threshold_type = "max"
    THEN [num |-> (value - threshold) * 100, den |-> threshold]
    ELSE [num |-> (threshold - value) * 100, den |-> threshold]

\* percent_over > k, for den # 0
PercentGreater(p, k) ==
    IF p.den > 0 THEN p.num > k * p.den ELSE p.num < k * p.den

\* _determine_severity with the names of the two middle bands exchanged
_determine_severity_bands_swapped(value, threshold, threshold_type) ==
    LET percent_over == PercentOver(value, threshold, threshold_type)
    IN  IF threshold = 0 THEN "ZeroDivisionError"
        ELSE IF PercentGreater(percent_over, 50) THEN "critical"
        ELSE IF PercentGreater(percent_over, 25) THEN "medium"
        ELSE IF PercentGreater(percent_over, 10) THEN "high"
        ELSE "low"

\* _determine_severity with >= for > at the breakpoints
_determine_severity_inclusive(value, threshold, threshold_type) ==
    LET p == PercentOver(value, threshold, threshold_type)
        AtLeast(k) == IF p.den > 0 THEN p.num >= k * p.den ELSE p.num <= k * p.den
    IN  IF threshold = 0 THEN "ZeroDivisionError"
        ELSE IF AtLeast(50) THEN "critical"
        ELSE IF AtLeast(25) THEN "high"
        ELSE IF AtLeast(10) THEN "medium"
        ELSE "low"

\* _determine_severity: the severity, or the ZeroDivisionError of the division
\* by a threshold of 0
_determine_severity(value, threshold, threshold_type) ==
    LET percent_over == PercentOver(value, threshold, threshold_type)
    IN  IF threshold = 0 THEN "ZeroDivisionError"
        ELSE IF PercentGreater(percent_over, 50) THEN "critical"
        ELSE IF PercentGreater(percent_over, 25) THEN "high"
        ELSE IF PercentGreater(percent_over, 10) THEN "medium"
        ELSE "low"

NoAlert ==
    [kind |-> "None", equipment_id |-> Null, sensor_type |-> Null, value |-> 0,
     threshold |-> 0, alert_type |-> Null, severity |-> Null, message |-> Str("")]

\* check_thresholds not applied yet
Pending == [NoAlert EXCEPT !.kind = "pending"]

Raised(exc) == [NoAlert EXCEPT !.kind = "raise", !.alert_type = exc]

\* the Alert built with an alert type that generate_alert does not know
ThresholdAlert_unknown_type(reading, value, threshold, severity, wording) ==
    IF severity = "ZeroDivisionError" THEN Raised("ZeroDivisionError")
    ELSE [kind |-> "Alert",
          equipment_id |-> reading.equipment_id,
          sensor_type |-> reading.sensor_type,
          value |-> value,
          threshold |-> threshold,
          alert_type |-> "threshold_violation",
          severity |-> severity,
          message |-> Str(reading.sensor_type \o " reading " \o FloatStr(value)
                          \o wording \o FloatStr(threshold))]

\* the Alert check_thresholds builds once the severity is known
ThresholdAlert(reading, value, threshold, severity, wording) ==
    IF severity = "ZeroDivisionError" THEN Raised("ZeroDivisionError")
    ELSE [kind |-> "Alert",
          equipment_id |-> reading.equipment_id,
          sensor_type |-> reading.sensor_type,
          value |-> value,
          threshold |-> threshold,
          alert_type |-> "threshold_exceeded",
          severity |-> severity,
          message |-> Str(reading.sensor_type \o " reading " \o FloatStr(value)
                          \o wording \o FloatStr(threshold))]

\* check_thresholds without the check of the minimum threshold
check_thresholds_max_only(thresholds, reading) ==
    LET sensor_type == reading.sensor_type
        value == reading.value.v
    IN  IF sensor_type \notin DOMAIN thresholds THEN NoAlert
        ELSE LET threshold_config == thresholds[sensor_type]
             IN  IF "max" \in DOMAIN threshold_config /\ value > threshold_config.max
                 THEN ThresholdAlert(reading, value, threshold_config.max,
                          _determine_severity(value, threshold_config.max, "max"),
                          " exceeds maximum threshold ")
                 ELSE NoAlert

\* check_thresholds: the Alert, None, or the exception that escapes
check_thresholds(thresholds, reading) ==
    LET sensor_type == reading.sensor_type
        value == reading.value.v
    IN  IF sensor_type \notin DOMAIN thresholds THEN NoAlert
        ELSE LET threshold_config == thresholds[sensor_type]
             IN  IF "max" \in DOMAIN threshold_config /\ value > threshold_config.max
                 THEN ThresholdAlert(reading, value, threshold_config.max,
                          _determine_severity(value, threshold_config.max, "max"),
                          " exceeds maximum threshold ")
                 ELSE IF "min" \in DOMAIN threshold_config /\ value < threshold_config.min
                 THEN ThresholdAlert(reading, value, threshold_config.min,
                          _determine_severity(value, threshold_config.min, "min"),
                          " below minimum threshold ")
                 ELSE NoAlert

\* An error of the store: cursor.execute raises sqlite3.OperationalError, and
\* get_cursor raises it again after the rollback. A call is made with the
\* number of its statement that raises, NoFault for none.
NoFault == 0
StoreErrorType == "OperationalError"
StoreErrorText == "database is locked"

\* a key the reading dict does not have
Absent == "ABSENT"
AbsentValue == [type |-> "absent", v |-> 0]
\* float('nan'), float('inf'), float('-inf') (or the texts float() reads so)
FloatNaN == [type |-> "float_nan", v |-> 0]
FloatInf == [type |-> "float_inf", v |-> 0]
FloatNegInf == [type |-> "float_neginf", v |-> 0]

\* does float(value) return: it raises ValueError on a text that is no
\* number and TypeError on None, and returns for every float, nan and the
\* infinities included
float_returns(value) ==
    value.type \in {"float", "float_nan", "float_inf", "float_neginf"}

\* ', '.join(names)
RECURSIVE JoinComma(_)
JoinComma(names) ==
    IF names = <<>> THEN ""
    ELSE IF Len(names) = 1 THEN names[1]
    ELSE names[1] \o ", " \o JoinComma(Tail(names))

\* field not in reading or reading[field] is None
FieldMissing(reading, field) ==
    CASE field = "equipment_id" -> reading.equipment_id \in {Absent, Null}
      [] field = "sensor_type" -> reading.sensor_type \in {Absent, Null}
      [] OTHER -> reading.value.type \in {"absent", "NoneType"}

\* validate_reading that reports the first missing field only
validate_reading_first_missing(dir, reading) ==
    LET missing_fields ==
            SelectSeq(REQUIRED_FIELDS, LAMBDA f : FieldMissing(reading, f))
    IN  IF missing_fields # <<>>
        THEN "Missing required fields: " \o missing_fields[1]
        ELSE IF EquipmentRepository_get_by_id(dir, reading.equipment_id) = Null
        THEN "Equipment with ID '" \o reading.equipment_id \o "' not found"
        ELSE IF reading.sensor_type \notin Range(VALID_SENSOR_TYPES)
        THEN "Invalid sensor type '" \o reading.sensor_type
                 \o "'. Valid types: " \o JoinComma(VALID_SENSOR_TYPES)
        ELSE IF ~float_returns(reading.value)
        THEN "Sensor value must be numeric"
        ELSE "ok"

\* validate_reading: "ok", or the message of the ValidationError it raises
validate_reading(dir, reading) ==
    LET missing_fields ==
            SelectSeq(REQUIRED_FIELDS, LAMBDA f : FieldMissing(reading, f))
    IN  IF missing_fields # <<>>
        THEN "Missing required fields: " \o JoinComma(missing_fields)
        ELSE IF EquipmentRepository_get_by_id(dir, reading.equipment_id) = Null
        THEN "Equipment with ID '" \o reading.equipment_id \o "' not found"
        ELSE IF reading.sensor_type \notin Range(VALID_SENSOR_TYPES)
        THEN "Invalid sensor type '" \o reading.sensor_type
                 \o "'. Valid types: " \o JoinComma(VALID_SENSOR_TYPES)
        ELSE IF ~float_returns(reading.value)
        THEN "Sensor value must be numeric"
        ELSE "ok"

\* SensorDataRepository.create: INSERT INTO sensor_readings
SensorDataRepository_create(store, reading, now) ==
    Append(store,
        [id |-> NextRowId(store),
         equipment_id |-> reading.equipment_id,
         sensor_type |-> reading.sensor_type,
         value |-> reading.value.v,
         timestamp |-> now])

\* record_reading that stores the reading before it validates it
record_reading_store_first(dir, thresholds, store, now, reading, fault) ==
    LET v == validate_reading(dir, reading)
        stored == SensorDataRepository_create(store, reading, now)
        alert == check_thresholds(thresholds, reading)
    IN  IF v # "ok"
        THEN [success |-> FALSE, error |-> v, reading_id |-> 0,
              alert |-> NoAlert, store |-> stored]
        ELSE [success |-> TRUE, error |-> "", reading_id |-> stored[Len(stored)].id,
              alert |-> alert, store |-> stored]

\* record_reading: the Result (success, error_message, data) and the Reading
\* Store it leaves. Its statements are the equipment lookup of
\* validate_reading (1) and the INSERT of the reading (2); `except Exception`
\* makes a failure Result of whatever is raised after validation started.
record_reading(dir, thresholds, store, now, reading, fault) ==
    LET v == validate_reading(dir, reading)
        lookup_runs == \A i \in DOMAIN REQUIRED_FIELDS :
                           ~FieldMissing(reading, REQUIRED_FIELDS[i])
        stored == SensorDataRepository_create(store, reading, now)
        alert == check_thresholds(thresholds, reading)
        store_failed ==
            [success |-> FALSE,
             error |-> "Failed to record reading: " \o StoreErrorText,
             reading_id |-> 0, alert |-> NoAlert, store |-> store]
    IN  IF fault = 1 /\ lookup_runs THEN store_failed
        ELSE IF v # "ok"
        THEN [success |-> FALSE, error |-> v, reading_id |-> 0,
              alert |-> NoAlert, store |-> store]
        ELSE IF fault = 2 THEN store_failed
        ELSE IF alert.kind = "raise"
        THEN [success |-> FALSE,
              error |-> "Failed to record reading: float division by zero",
              reading_id |-> 0, alert |-> NoAlert, store |-> stored]
        ELSE [success |-> TRUE, error |-> "", reading_id |-> stored[Len(stored)].id,
              alert |-> alert, store |-> stored]

-----------------------------------------------------------------------------
(* AlertGenerator *)

\* validate_alert_data with `and` for `or` in the message check
validate_alert_data_and(dir, equipment_id, alert_type, severity, message) ==
    IF EquipmentRepository_get_by_id(dir, equipment_id) = Null
    THEN "Equipment not found"
    ELSE IF alert_type \notin Range(VALID_ALERT_TYPES)
    THEN "Invalid alert type"
    ELSE IF severity \notin Range(VALID_SEVERITIES)
    THEN "Invalid severity"
    ELSE IF ~Truthy(message) /\ message.type # "str"
    THEN "Alert message must be a non-empty string"
    ELSE "ok"

\* validate_alert_data: "ok", or the ValidationError it raises
validate_alert_data(dir, equipment_id, alert_type, severity, message) ==
    IF EquipmentRepository_get_by_id(dir, equipment_id) = Null
    THEN "Equipment not found"
    ELSE IF alert_type \notin Range(VALID_ALERT_TYPES)
    THEN "Invalid alert type"
    ELSE IF severity \notin Range(VALID_SEVERITIES)
    THEN "Invalid severity"
    ELSE IF ~Truthy(message) \/ message.type # "str"
    THEN "Alert message must be a non-empty string"
    ELSE "ok"

\* generate_alert: what it raises (if anything), the id it returns and the
\* Alert Store it leaves
generate_alert(dir, store, now, equipment_id, alert_type, severity, message) ==
    LET v == validate_alert_data(dir, equipment_id, alert_type, severity, message)
        alert_data == [equipment_id |-> equipment_id,
                       alert_type |-> alert_type,
                       severity |-> severity,
                       message |-> message,
                       status |-> "active"]
        created == AlertRepository_create(store, alert_data, now)
    IN  IF v # "ok"
        THEN [exc |-> "ValidationError", error |-> v, id |-> 0, store |-> store]
        ELSE [exc |-> "", error |-> "", id |-> created[Len(created)].id,
              store |-> created]

\* get_active_alerts
get_active_alerts(store, tb) == AlertRepository_get_active_alerts(store, tb)

\* get_equipment_alerts
get_equipment_alerts(store, equipment_id, tb) ==
    AlertRepository_get_by_equipment(store, equipment_id, tb)

\* get_all_alerts
get_all_alerts(store, tb) == AlertRepository_get_all(store, tb)

\* acknowledge_alert without the check for an acknowledged alert
acknowledge_alert_unchecked(store, now, alert_id, user, fault) ==
    LET alert == AlertRepository_get_by_id(store, alert_id)
        updated == AlertRepository_acknowledge(store, alert_id, user, now)
    IN  IF alert = <<>>
        THEN [success |-> FALSE,
              error |-> "Alert with ID " \o ToString(alert_id) \o " not found",
              store |-> store]
        ELSE [success |-> TRUE, error |-> "", store |-> updated]

\* acknowledge_alert, run without interruption: the Result and the Alert
\* Store it leaves. Its statements are the lookup (1), the UPDATE (2) and the
\* second lookup (3); `except Exception` makes a failure Result of whatever
\* is raised.
acknowledge_alert(store, now, alert_id, user, fault) ==
    LET alert == AlertRepository_get_by_id(store, alert_id)
        updated == AlertRepository_acknowledge(store, alert_id, user, now)
        success == AlertRepository_acknowledge_rows(store, alert_id) > 0
        store_failed(left) ==
            [success |-> FALSE,
             error |-> "Failed to acknowledge alert: " \o StoreErrorText,
             store |-> left]
    IN  IF fault = 1 THEN store_failed(store)
        ELSE IF alert = <<>>
        THEN [success |-> FALSE,
              error |-> "Alert with ID " \o ToString(alert_id) \o " not found",
              store |-> store]
        ELSE IF alert[1].status = "acknowledged"
        THEN [success |-> FALSE,
              error |-> "Alert " \o ToString(alert_id) \o " is already acknowledged",
              store |-> store]
        ELSE IF fault = 2 THEN store_failed(store)
        ELSE IF success
        THEN IF fault = 3 THEN store_failed(updated)
             ELSE [success |-> TRUE, error |-> "", store |-> updated]
        ELSE [success |-> FALSE, error |-> "Failed to acknowledge alert",
              store |-> updated]

-----------------------------------------------------------------------------
(* Inputs of the calls *)

\* equipment ids a caller passes: one that resolves, one that does not
EquipmentIds == {"EQ1", "EQX"}
\* alert types a caller passes
AlertTypeInputs == {"threshold_exceeded", "maintenance_due", "bogus_type"}
\* severities a caller passes
SeverityInputs == {"low", "critical", "urgent"}
\* messages a caller passes: a text, the empty string, None, an int
MessageInputs == {Str("msg"), Str(""), NonStr("NoneType", "None"), NonStr("int", "42")}
\* users that acknowledge
Users == {"alice", "bob"}
\* alert ids a caller passes: every id the store can hold, and one more
AlertIds == 1..(MaxAlerts + 1)

NoCall == [op |-> "none", ok |-> FALSE, exc |-> "", error |-> "", id |-> 0,
           code |-> 0]

\* sensor types a caller passes: configured ones, one outside the whitelist
SensorTypeInputs == {"temperature", "pressure", "noise", Null}
\* values a caller passes
ValueInputs == {Num(-20), Num(-5), Num(50), Num(100), Num(200), NotANumber, NoValue}

\* a request that runs no acknowledge_alert call
Idle == [pc |-> "idle", alert_id |-> 0, alert |-> <<>>,
         success |-> FALSE, error |-> ""]

\* the threads of the server: each handles one request at a time
Threads == {"t1", "t2"}
\* a thread that runs no request
NoRequest == [pc |-> "idle", op |-> "none", id |-> 0]
\* the connection in autocommit state: no transaction is open
NoTxn == [open |-> FALSE, alerts |-> <<>>, readings |-> <<>>]

-----------------------------------------------------------------------------
(* The calls, one request at a time *)

Init ==
    /\ clock = 0
    /\ equipment = {"EQ1"}
    /\ alerts = <<>>
    /\ last = NoCall
    /\ ack = [u \in Users |-> Idle]
    /\ readings = <<>>
    /\ evalIn = [equipment_id |-> "EQ1", sensor_type |-> "temperature", value |-> Num(0)]
    /\ evalOut = Pending
    /\ txn = NoTxn
    /\ req = [t \in Threads |-> NoRequest]

\* time passes
Tick ==
    /\ clock < MaxClock
    /\ clock' = clock + 1
    /\ UNCHANGED <<equipment, alerts, last, ack, readings, evalIn, evalOut, txn, req>>

\* a call of AlertGenerator.generate_alert, while the store holds < cap alerts
GenerateAlertCapped(cap, equipment_id, alert_type, severity, message) ==
    LET r == generate_alert(equipment, alerts, clock,
                            equipment_id, alert_type, severity, message)
    IN  /\ Len(r.store) <= cap
        /\ alerts' = r.store
        /\ last' = [op |-> "generate_alert", ok |-> r.exc = "", exc |-> r.exc,
                    error |-> r.error, id |-> r.id, code |-> 0]
        /\ UNCHANGED <<clock, equipment, ack, readings, evalIn, evalOut, txn, req>>

GenerateAlert(equipment_id, alert_type, severity, message) ==
    GenerateAlertCapped(MaxAlerts, equipment_id, alert_type, severity, message)

\* a call of AlertGenerator.acknowledge_alert during which the store raises
\* on statement `fault` (NoFault: on none)
AcknowledgeAlertOn(alert_id, user, fault) ==
    LET r == acknowledge_alert(alerts, clock, alert_id, user, fault)
    IN  /\ alerts' = r.store
        /\ last' = [op |-> "acknowledge_alert", ok |-> r.success, exc |-> "",
                    error |-> r.error, id |-> alert_id, code |-> 0]
        /\ UNCHANGED <<clock, equipment, ack, readings, evalIn, evalOut, txn, req>>

\* a call of AlertGenerator.acknowledge_alert
AcknowledgeAlert(alert_id, user) == AcknowledgeAlertOn(alert_id, user, NoFault)

\* the alert lifecycle, calls made one after the other
Next ==
    \/ Tick
    \/ \E s \in {"critical", "low"} :
          GenerateAlert("EQ1", "threshold_exceeded", s, Str("msg"))
    \/ \E i \in AlertIds, u \in Users : AcknowledgeAlert(i, u)

Spec == Init /\ [][Next]_vars

\* generate_alert on every combination of arguments
NextGen ==
    \E e \in EquipmentIds, t \in AlertTypeInputs, s \in SeverityInputs,
          m \in MessageInputs : GenerateAlert(e, t, s, m)

SpecGen == Init /\ [][NextGen]_vars

\* the alerts the listings are checked on: any severities in any order of
\* insertion, any subset acknowledged
NextQuery ==
    \/ Tick
    \/ \E s \in {"low", "medium", "critical"} :
          GenerateAlertCapped(MaxQueryAlerts, "EQ1", "threshold_exceeded", s, Str("msg"))
    \/ \E i \in 1..MaxQueryAlerts : AcknowledgeAlert(i, "alice")

SpecQuery == Init /\ [][NextQuery]_vars

\* the alerts the listings by equipment are checked on: alerts of two
\* registered equipment, of two severities, any of them acknowledged
InitList ==
    /\ clock = 0
    /\ equipment = {"EQ1", "EQ2"}
    /\ alerts = <<>>
    /\ last = NoCall
    /\ ack = [u \in Users |-> Idle]
    /\ readings = <<>>
    /\ evalIn = [equipment_id |-> "EQ1", sensor_type |-> "temperature", value |-> Num(0)]
    /\ evalOut = Pending
    /\ txn = NoTxn
    /\ req = [t \in Threads |-> NoRequest]

NextList ==
    \/ Tick
    \/ \E e \in {"EQ1", "EQ2"}, s \in {"low", "critical"} :
          GenerateAlert(e, "threshold_exceeded", s, Str("msg"))
    \/ \E i \in AlertIds : AcknowledgeAlert(i, "alice")

SpecList == InitList /\ [][NextList]_vars

-----------------------------------------------------------------------------
(* acknowledge_alert step by step: requests of two users run concurrently  *)
(* (the server handles each request in its own thread, all on the one      *)
(* connection), every repository call is one statement on the store        *)

\* alert = self.alert_repo.get_by_id(alert_id)
AckLookup(u, alert_id) ==
    /\ ack[u].pc = "idle"
    /\ ack' = [ack EXCEPT ![u] =
                  [Idle EXCEPT !.pc = "check", !.alert_id = alert_id,
                               !.alert = AlertRepository_get_by_id(alerts, alert_id)]]
    /\ UNCHANGED <<clock, equipment, alerts, last, readings, evalIn, evalOut, txn, req>>

\* if not alert: ... ; if alert['status'] == 'acknowledged': ...
AckCheck(u) ==
    /\ ack[u].pc = "check"
    /\ ack' = [ack EXCEPT ![u] =
                  IF ack[u].alert = <<>>
                  THEN [@ EXCEPT !.pc = "done",
                                 !.error = "Alert with ID " \o ToString(ack[u].alert_id)
                                               \o " not found"]
                  ELSE IF ack[u].alert[1].status = "acknowledged"
                  THEN [@ EXCEPT !.pc = "done",
                                 !.error = "Alert " \o ToString(ack[u].alert_id)
                                               \o " is already acknowledged"]
                  ELSE [@ EXCEPT !.pc = "update"]]
    /\ UNCHANGED <<clock, equipment, alerts, last, readings, evalIn, evalOut, txn, req>>

\* success = self.alert_repo.acknowledge(alert_id, user)
AckUpdate(u) ==
    /\ ack[u].pc = "update"
    /\ alerts' = AlertRepository_acknowledge(alerts, ack[u].alert_id, u, clock)
    /\ ack' = [ack EXCEPT ![u] =
                  IF AlertRepository_acknowledge_rows(alerts, ack[u].alert_id) > 0
                  THEN [@ EXCEPT !.pc = "reread"]
                  ELSE [@ EXCEPT !.pc = "done",
                                 !.error = "Failed to acknowledge alert"]]
    /\ UNCHANGED <<clock, equipment, last, readings, evalIn, evalOut, txn, req>>

\* updated_alert = self.alert_repo.get_by_id(alert_id); return Result(True)
AckReread(u) ==
    /\ ack[u].pc = "reread"
    /\ ack' = [ack EXCEPT ![u] =
                  [@ EXCEPT !.pc = "done", !.success = TRUE,
                            !.alert = AlertRepository_get_by_id(alerts, ack[u].alert_id)]]
    /\ UNCHANGED <<clock, equipment, alerts, last, readings, evalIn, evalOut, txn, req>>

\* the request is answered
AckReturn(u) ==
    /\ ack[u].pc = "done"
    /\ ack' = [ack EXCEPT ![u] = Idle]
    /\ UNCHANGED <<clock, equipment, alerts, last, readings, evalIn, evalOut, txn, req>>

NextConc ==
    \/ Tick
    \/ GenerateAlert("EQ1", "threshold_exceeded", "critical", Str("msg"))
    \/ \E u \in Users, i \in AlertIds : AckLookup(u, i)
    \/ \E u \in Users : AckCheck(u)
    \/ \E u \in Users : AckUpdate(u)
    \/ \E u \in Users : AckReread(u)
    \/ \E u \in Users : AckReturn(u)

SpecConc == Init /\ [][NextConc]_vars

-----------------------------------------------------------------------------
(* The ingestion endpoint, one request at a time *)

\* POST /api/sensors/readings (record_sensor_reading): record_reading, then
\* generate_alert on the descriptor it returned; last.code is the HTTP status.
\* The store raises on statement `fault` of record_reading (NoFault: on none).
ApiRecordSensorReadingOn(equipment_id, sensor_type, value, fault) ==
    LET data == [equipment_id |-> equipment_id, sensor_type |-> sensor_type,
                 value |-> value]
        result == record_reading(equipment, DEFAULT_THRESHOLDS, readings, clock,
                                 data, fault)
        g == generate_alert(equipment, alerts, clock,
                            result.alert.equipment_id, result.alert.alert_type,
                            result.alert.severity, result.alert.message)
    IN  /\ Len(result.store) <= MaxReadings
        /\ readings' = result.store
        /\ IF result.success /\ result.alert.kind = "Alert"
           THEN /\ alerts' = g.store
                /\ last' = [op |-> "record_sensor_reading", ok |-> g.exc = "",
                            exc |-> g.exc, error |-> g.error,
                            id |-> result.reading_id,
                            code |-> IF g.exc = "" THEN 201 ELSE 500]
           ELSE /\ alerts' = alerts
                /\ last' = [op |-> "record_sensor_reading", ok |-> result.success,
                            exc |-> "", error |-> result.error,
                            id |-> result.reading_id,
                            code |-> IF result.success THEN 201 ELSE 400]
        /\ UNCHANGED <<clock, equipment, ack, evalIn, evalOut, txn, req>>

\* the request, served without a store error
ApiRecordSensorReading(equipment_id, sensor_type, value) ==
    ApiRecordSensorReadingOn(equipment_id, sensor_type, value, NoFault)

NextIngest ==
    \E e \in EquipmentIds \cup {Null}, t \in SensorTypeInputs, v \in ValueInputs :
        ApiRecordSensorReading(e, t, v)

SpecIngest == Init /\ [][NextIngest]_vars

-----------------------------------------------------------------------------
(* The sensor form of the web pages, POST /sensors/record *)

\* what the form of the web pages sends: ids and sensor types of the
\* dropdowns or typed in, values that are numbers, a text, nothing
WebEquipmentInputs == {"EQ1", "EQX"}
WebSensorTypeInputs == {"temperature", "pressure"}
WebValueInputs == {Num(-20), Num(-5), Num(50), Num(100), NotANumber, NoValue}

\* sensor_record: float() of the form's value, record_reading, and on
\* success the reading of data['alert'] and the generate_alert call; the
\* page is rendered with success=True or with an error (`ok`). The key
\* 'alert' is in result.data of every successful Result, so alert_generated
\* is True, and result.data.get('alert', {}) is None without a violation:
\* None.get raises AttributeError, which `except Exception` renders.
WebSensorRecord(equipment_id, sensor_type, value) ==
    LET data == [equipment_id |-> equipment_id, sensor_type |-> sensor_type,
                 value |-> value]
        result == record_reading(equipment, DEFAULT_THRESHOLDS, readings, clock,
                                 data, NoFault)
        g == generate_alert(equipment, alerts, clock,
                            result.alert.equipment_id, result.alert.alert_type,
                            result.alert.severity, result.alert.message)
        page(ok, exc, error, id) ==
            [op |-> "sensor_record", ok |-> ok, exc |-> exc, error |-> error,
             id |-> id, code |-> 200]
    IN  IF value = NotANumber
        THEN /\ last' = page(FALSE, "ValueError",
                     "Invalid value: could not convert string to float: 'abc'", 0)
             /\ UNCHANGED <<clock, equipment, alerts, ack, readings, evalIn,
                            evalOut, txn, req>>
        ELSE IF value = NoValue
        THEN /\ last' = page(FALSE, "TypeError",
                     "Error recording sensor reading: float() argument must be "
                         \o "a string or a real number, not 'NoneType'", 0)
             /\ UNCHANGED <<clock, equipment, alerts, ack, readings, evalIn,
                            evalOut, txn, req>>
        ELSE /\ Len(result.store) <= MaxReadings
             /\ readings' = result.store
             /\ IF ~result.success
                THEN /\ alerts' = alerts
                     /\ last' = page(FALSE, "", result.error, 0)
                ELSE IF result.alert.kind # "Alert"
                THEN /\ alerts' = alerts
                     /\ last' = page(FALSE, "AttributeError",
                             "Error recording sensor reading: 'NoneType' object "
                                 \o "has no attribute 'get'", result.reading_id)
                ELSE /\ alerts' = g.store
                     /\ last' = IF g.exc = ""
                                THEN page(TRUE, "", "", result.reading_id)
                                ELSE page(FALSE, g.exc,
                                         "Error recording sensor reading: " \o g.error,
                                         result.reading_id)
             /\ UNCHANGED <<clock, equipment, ack, evalIn, evalOut, txn, req>>

\* readings come in by the form and by the API
NextWeb ==
    \/ \E e \in WebEquipmentInputs, t \in WebSensorTypeInputs, v \in WebValueInputs :
          WebSensorRecord(e, t, v)
    \/ \E e \in WebEquipmentInputs, t \in WebSensorTypeInputs, v \in WebValueInputs :
          ApiRecordSensorReading(e, t, v)

SpecWeb == Init /\ [][NextWeb]_vars

-----------------------------------------------------------------------------
(* The acknowledge endpoint, and calls during which the store raises *)

\* "not found" in result.error_message.lower(), on the messages
\* acknowledge_alert returns: only its 'not found' message has the words
MentionsNotFound_never(error_message) == FALSE

MentionsNotFound(error_message) ==
    error_message \in {"Alert with ID " \o ToString(i) \o " not found" : i \in AlertIds}

\* POST /api/alerts/<id>/ack (acknowledge_alert): the body must have the key
\* 'user'; a failure of acknowledge_alert is answered 404 when its message
\* says "not found" and 400 otherwise
ApiAcknowledgeAlertOn(alert_id, user, fault) ==
    LET result == acknowledge_alert(alerts, clock, alert_id, user, fault)
    IN  /\ IF user = Absent
           THEN /\ alerts' = alerts
                /\ last' = [op |-> "api_acknowledge_alert", ok |-> FALSE, exc |-> "",
                            error |-> "Request body must include 'user' field",
                            id |-> alert_id, code |-> 400]
           ELSE /\ alerts' = result.store
                /\ last' = [op |-> "api_acknowledge_alert", ok |-> result.success,
                            exc |-> "", error |-> result.error, id |-> alert_id,
                            code |-> IF result.success THEN 200
                                     ELSE IF MentionsNotFound(result.error) THEN 404
                                     ELSE 400]
        /\ UNCHANGED <<clock, equipment, ack, readings, evalIn, evalOut, txn, req>>

\* the statements of a call the store may raise on
RecordReadingFaults == {NoFault, 1, 2}
AcknowledgeFaults == {NoFault, 1, 2, 3}
\* values of the readings ingested here: one in the band, one above it
FaultValueInputs == {Num(50), Num(100)}

NextFault ==
    \/ \E v \in FaultValueInputs, f \in RecordReadingFaults :
          ApiRecordSensorReadingOn("EQ1", "temperature", v, f)
    \/ \E i \in AlertIds, u \in Users, f \in AcknowledgeFaults :
          AcknowledgeAlertOn(i, u, f)
    \/ \E i \in AlertIds, u \in {"alice", Absent}, f \in AcknowledgeFaults :
          ApiAcknowledgeAlertOn(i, u, f)

SpecFault == Init /\ [][NextFault]_vars

\* what a request body gives as "user": a name, the empty text, null, or
\* no such field
ApiUserInputs == {"alice", "", Null, Absent}

\* alerts are generated and acknowledged through the endpoint
NextApiAck ==
    \/ Tick
    \/ \E s \in {"low", "critical"} :
          GenerateAlert("EQ1", "threshold_exceeded", s, Str("msg"))
    \/ \E i \in AlertIds, u \in ApiUserInputs : ApiAcknowledgeAlertOn(i, u, NoFault)

SpecApiAck == Init /\ [][NextApiAck]_vars

-----------------------------------------------------------------------------
(* The threshold evaluator applied to every sensor type and value *)

\* the values around 0 and, for every sensor type, those at and next to its
\* maximum and to 10, 25 and 50 percent above it
EvalValues(sensor_type) ==
    LET max == DEFAULT_THRESHOLDS[sensor_type].max
    IN  ((-MaxAbsValue)..MaxAbsValue)
        \cup {max + (max * k) \div 100 + d : k \in {0, 10, 25, 50}, d \in {-1, 0, 1}}

\* any validated reading of equipment EQ1
InitEval ==
    /\ clock = 0
    /\ equipment = {"EQ1"}
    /\ alerts = <<>>
    /\ last = NoCall
    /\ ack = [u \in Users |-> Idle]
    /\ readings = <<>>
    /\ evalIn \in UNION {{[equipment_id |-> "EQ1", sensor_type |-> t, value |-> Num(v)] :
                               v \in EvalValues(t)} : t \in Range(VALID_SENSOR_TYPES)}
    /\ evalOut = Pending
    /\ txn = NoTxn
    /\ req = [t \in Threads |-> NoRequest]

\* check_thresholds(reading) of a SensorProcessor with the default thresholds
CheckThresholds ==
    /\ evalOut = Pending
    /\ evalOut' = check_thresholds(DEFAULT_THRESHOLDS, evalIn)
    /\ UNCHANGED <<clock, equipment, alerts, last, ack, readings, evalIn, txn, req>>

NextEval == CheckThresholds

SpecEval == InitEval /\ [][NextEval]_vars

-----------------------------------------------------------------------------
(* check_thresholds of a SensorProcessor constructed with a table of its own *)

\* the tables the constructor is called with: none, the empty one, tables
\* without some of the sensor types, a sensor type with a maximum only, the
\* default table
ThresholdsInputs ==
    {NoThresholds,
     Thresholds([k \in {} |-> 0]),
     Thresholds([temperature |-> [max |-> 80, min |-> -10]]),
     Thresholds([pressure |-> [max |-> 150]]),
     Thresholds([temperature |-> [max |-> 50, min |-> 10],
                 humidity |-> [max |-> 100, min |-> 20]]),
     Thresholds(DEFAULT_THRESHOLDS)}

\* a constructor argument and a validated reading of equipment EQ1
InitConstruct ==
    /\ clock = 0
    /\ equipment = {"EQ1"}
    /\ alerts = <<>>
    /\ last = NoCall
    /\ ack = [u \in Users |-> Idle]
    /\ readings = <<>>
    /\ evalIn \in {[equipment_id |-> "EQ1", sensor_type |-> t, value |-> Num(v),
                     thresholds |-> th] :
                        t \in {"temperature", "pressure", "humidity"},
                        v \in (-MaxAbsValue)..MaxAbsValue,
                        th \in ThresholdsInputs}
    /\ evalOut = Pending
    /\ txn = NoTxn
    /\ req = [t \in Threads |-> NoRequest]

\* SensorProcessor(sensor_repo, equipment_repo, thresholds).check_thresholds(reading)
ConstructAndCheck ==
    /\ evalOut = Pending
    /\ evalOut' = check_thresholds(SensorProcessor_init(evalIn.thresholds), evalIn)
    /\ UNCHANGED <<clock, equipment, alerts, last, ack, readings, evalIn, txn, req>>

NextConstruct == ConstructAndCheck

SpecConstruct == InitConstruct /\ [][NextConstruct]_vars

-----------------------------------------------------------------------------
(* validate_reading applied to every kind of reading *)

\* the readings validate_reading is applied to: every field present, None
\* or absent, ids that resolve or not, sensor types in the whitelist or not,
\* values that are numbers, texts, nan or infinite
ValidateEquipmentInputs == {"EQ1", "EQX", Null, Absent}
ValidateSensorTypeInputs == {"temperature", "humidity", "noise", Null, Absent}
ValidateValueInputs ==
    {Num(50), Num(-5), NotANumber, NoValue, AbsentValue,
     FloatNaN, FloatInf, FloatNegInf}

InitValidate ==
    /\ clock = 0
    /\ equipment = {"EQ1"}
    /\ alerts = <<>>
    /\ last = NoCall
    /\ ack = [u \in Users |-> Idle]
    /\ readings = <<>>
    /\ evalIn \in [equipment_id : ValidateEquipmentInputs,
                    sensor_type : ValidateSensorTypeInputs,
                    value : ValidateValueInputs]
    /\ evalOut = Pending
    /\ txn = NoTxn
    /\ req = [t \in Threads |-> NoRequest]

\* validate_reading(reading): True, or the ValidationError it raises
ValidateReading ==
    LET v == validate_reading(equipment, evalIn)
    IN  /\ last = NoCall
        /\ last' = [op |-> "validate_reading", ok |-> v = "ok",
                    exc |-> IF v = "ok" THEN "" ELSE "ValidationError",
                    error |-> IF v = "ok" THEN "" ELSE v, id |-> 0, code |-> 0]
        /\ UNCHANGED <<clock, equipment, alerts, ack, readings, evalIn, evalOut, txn, req>>

NextValidate == ValidateReading

SpecValidate == InitValidate /\ [][NextValidate]_vars

-----------------------------------------------------------------------------
(* Requests of two threads on the one connection, statement by statement:  *)
(* DatabaseManager keeps a single sqlite3 connection (check_same_thread =  *)
(* False) and every execute_query / execute_update is cursor.execute       *)
(* followed by conn.commit(), or by conn.rollback() when the statement     *)
(* raised. The transaction belongs to the connection, not to the thread.   *)

\* the transaction after a data-changing statement starts: sqlite3 opens one
\* (BEGIN) unless one is open; it remembers the tables to roll back to
Connection_begin(t, alert_store, reading_store) ==
    IF t.open THEN t
    ELSE [open |-> TRUE, alerts |-> alert_store, readings |-> reading_store]

\* the arguments the two threads' calls are made with
TxnAlert == [equipment_id |-> "EQ1", alert_type |-> "threshold_exceeded",
             severity |-> "critical", message |-> Str("msg"), status |-> "active"]
TxnReading == [equipment_id |-> "EQ1", sensor_type |-> "temperature",
               value |-> Num(50)]

\* generate_alert / record_reading start with the equipment lookup of their
\* validation: execute_query runs the SELECT and fetches the row
TxnLookup(t, op) ==
    /\ req[t].pc = "idle"
    /\ EquipmentRepository_get_by_id(equipment, "EQ1") # Null
    /\ req' = [req EXCEPT ![t] = [pc |-> "lookup_commit", op |-> op, id |-> 0]]
    /\ UNCHANGED <<clock, equipment, alerts, last, ack, readings, evalIn, evalOut, txn>>

\* get_cursor after the SELECT: conn.commit() ends whatever transaction is open
TxnLookupCommit(t) ==
    /\ req[t].pc = "lookup_commit"
    /\ txn' = NoTxn
    /\ req' = [req EXCEPT ![t].pc = "insert"]
    /\ UNCHANGED <<clock, equipment, alerts, last, ack, readings, evalIn, evalOut>>

\* execute_update: cursor.execute(INSERT ...), lastrowid is read
TxnInsert(t) ==
    /\ req[t].pc = "insert"
    /\ txn' = Connection_begin(txn, alerts, readings)
    /\ IF req[t].op = "generate_alert"
       THEN /\ Len(alerts) < MaxAlerts
            /\ alerts' = AlertRepository_create(alerts, TxnAlert, clock)
            /\ req' = [req EXCEPT ![t].pc = "insert_commit",
                                  ![t].id = NextRowId(alerts)]
            /\ UNCHANGED readings
       ELSE /\ Len(readings) < MaxReadings
            /\ readings' = SensorDataRepository_create(readings, TxnReading, clock)
            /\ req' = [req EXCEPT ![t].pc = "insert_commit",
                                  ![t].id = NextRowId(readings)]
            /\ UNCHANGED alerts
    /\ UNCHANGED <<clock, equipment, last, ack, evalIn, evalOut>>

\* get_cursor after the INSERT: conn.commit(); the call returns the id
TxnInsertCommit(t) ==
    /\ req[t].pc = "insert_commit"
    /\ txn' = NoTxn
    /\ req' = [req EXCEPT ![t].pc = "returned"]
    /\ UNCHANGED <<clock, equipment, alerts, last, ack, readings, evalIn, evalOut>>

\* a request whose data-changing statement raises in cursor.execute (a
\* constraint of the table refuses it): the statement changes nothing
TxnExecuteRaises(t) ==
    /\ req[t].pc = "idle"
    /\ txn' = Connection_begin(txn, alerts, readings)
    /\ req' = [req EXCEPT ![t] = [pc |-> "rollback", op |-> "failing", id |-> 0]]
    /\ UNCHANGED <<clock, equipment, alerts, last, ack, readings, evalIn, evalOut>>

\* get_cursor's except branch: conn.rollback(), then the error is raised again
TxnRollback(t) ==
    /\ req[t].pc = "rollback"
    /\ alerts' = IF txn.open THEN txn.alerts ELSE alerts
    /\ readings' = IF txn.open THEN txn.readings ELSE readings
    /\ txn' = NoTxn
    /\ req' = [req EXCEPT ![t].pc = "raised"]
    /\ UNCHANGED <<clock, equipment, last, ack, evalIn, evalOut>>

\* the request is answered
TxnReturn(t) ==
    /\ req[t].pc \in {"returned", "raised"}
    /\ req' = [req EXCEPT ![t] = NoRequest]
    /\ UNCHANGED <<clock, equipment, alerts, last, ack, readings, evalIn, evalOut, txn>>

NextTxn ==
    \/ \E t \in Threads, op \in {"generate_alert", "record_reading"} : TxnLookup(t, op)
    \/ \E t \in Threads : TxnLookupCommit(t)
    \/ \E t \in Threads : TxnInsert(t)
    \/ \E t \in Threads : TxnInsertCommit(t)
    \/ \E t \in Threads : TxnExecuteRaises(t)
    \/ \E t \in Threads : TxnRollback(t)
    \/ \E t \in Threads : TxnReturn(t)

SpecTxn == Init /\ [][NextTxn]_vars

-----------------------------------------------------------------------------
(* Properties of the alert lifecycle *)

Rows(store) == {store[i] : i \in DOMAIN store}
ActiveIds(store) == {r.id : r \in {x \in Rows(store) : x.status = "active"}}

\* C1: when two users' acknowledge_alert calls on the same alert have both
\* returned and one of them returned success, the other returned the
\* "already acknowledged" failure: both calls never succeed.
C1_OneAcknowledgeWins ==
    \A u \in Users, w \in Users :
        (/\ u # w
         /\ ack[u].pc = "done" /\ ack[w].pc = "done"
         /\ ack[u].alert_id = ack[w].alert_id
         /\ ack[u].success)
        => /\ ~ack[w].success
           /\ ack[w].error = "Alert " \o ToString(ack[w].alert_id)
                                 \o " is already acknowledged"

\* C2: calls made one after the other: acknowledge_alert(id, user) on an
\* active alert succeeds and leaves status = acknowledged, acknowledged_by =
\* user and acknowledged_at set; on an acknowledged alert it fails with
\* "already acknowledged" and leaves the row as it was.
C2_AcknowledgeSingleUse ==
    [][\A i \in AlertIds, u \in Users :
        (AcknowledgeAlert(i, u) /\ i \in {r.id : r \in Rows(alerts)}) =>
            LET before == CHOOSE r \in Rows(alerts) : r.id = i
                after == CHOOSE r \in Rows(alerts') : r.id = i
            IN  /\ before.status = "active" =>
                    /\ last'.ok
                    /\ after.status = "acknowledged"
                    /\ after.acknowledged_by = u
                    /\ after.acknowledged_at # NullTime
                /\ before.status = "acknowledged" =>
                    /\ ~last'.ok
                    /\ last'.error = "Alert " \o ToString(i)
                                          \o " is already acknowledged"
                    /\ after = before]_vars

\* C2 witness: a second acknowledge was refused, the row keeps the first user
C2_Witness ==
    /\ last.op = "acknowledge_alert"
    /\ last.error = "Alert " \o ToString(last.id) \o " is already acknowledged"
    /\ \E r \in Rows(alerts) :
          r.id = last.id /\ r.status = "acknowledged" /\ r.acknowledged_by = "alice"

\* C3: get_active_alerts returns exactly the alerts whose status is active,
\* each once: every alert not acknowledged is listed, no acknowledged one is.
C3_ActiveAlertsExactly ==
    \A tb \in TieBreaks :
        LET q == get_active_alerts(alerts, tb)
        IN  /\ {q[k].id : k \in DOMAIN q} = ActiveIds(alerts)
            /\ Len(q) = Cardinality(ActiveIds(alerts))
            /\ \A k \in DOMAIN q : q[k] \in Rows(alerts) /\ q[k].status = "active"

\* C3 witness: some alerts acknowledged, some not
C3_Witness ==
    /\ \E r \in Rows(alerts) : r.status = "acknowledged"
    /\ \E r \in Rows(alerts) : r.status = "active"

\* severity rank of the claim: critical(1) < high(2) < medium(3) < low(4)
ClaimRank(severity) ==
    IF severity = "critical" THEN 1
    ELSE IF severity = "high" THEN 2
    ELSE IF severity = "medium" THEN 3
    ELSE 4

\* C4: in the sequence get_active_alerts returns, every alert's severity rank
\* is <= its successor's, and of two adjacent alerts of equal severity the
\* earlier one was not created before the later one.
C4_ActiveAlertsOrder ==
    \A tb \in TieBreaks :
        LET q == get_active_alerts(alerts, tb)
        IN  \A k \in 1..(Len(q) - 1) :
                /\ ClaimRank(q[k].severity) <= ClaimRank(q[k + 1].severity)
                /\ q[k].severity = q[k + 1].severity
                       => q[k].created_at >= q[k + 1].created_at

\* C4 witness: a low alert inserted before a medium one, both active, and two
\* active alerts of one severity created at different times
C4_Witness ==
    /\ \E a \in Rows(alerts), b \in Rows(alerts) :
          /\ a.status = "active" /\ b.status = "active"
          /\ a.severity = "low" /\ b.severity = "medium" /\ a.id < b.id
    /\ \E a \in Rows(alerts), b \in Rows(alerts) :
          /\ a.status = "active" /\ b.status = "active"
          /\ a.severity = b.severity /\ a.created_at < b.created_at

\* C7: after a generate_alert call that returns an id, the row looked up by
\* that id has the call's equipment_id, alert_type, severity and message,
\* status active, and no acknowledged_by / acknowledged_at.
C7_GenerateRoundTrip ==
    [][\A e \in EquipmentIds, t \in AlertTypeInputs, s \in SeverityInputs,
          m \in MessageInputs :
        (GenerateAlert(e, t, s, m) /\ last'.ok) =>
            LET got == AlertRepository_get_by_id(alerts', last'.id)
            IN  /\ Len(got) = 1
                /\ got[1].equipment_id = e
                /\ got[1].alert_type = t
                /\ got[1].severity = s
                /\ got[1].message = m
                /\ got[1].status = "active"
                /\ got[1].acknowledged_by = Null
                /\ got[1].acknowledged_at = NullTime]_vars

\* C7 witness: generate_alert returned the id of a second alert
C7_Witness ==
    /\ last.op = "generate_alert" /\ last.ok /\ last.id = 2
    /\ \E r \in Rows(alerts) : r.id = 2 /\ r.alert_type = "maintenance_due"

\* does one of the four checks of the claim reject the arguments
ClaimRejects(e, t, s, m) ==
    \/ e \notin equipment
    \/ t \notin {"threshold_exceeded", "equipment_failure", "maintenance_due",
                 "communication_error", "sensor_malfunction"}
    \/ s \notin {"low", "medium", "high", "critical"}
    \/ m.type # "str"
    \/ m.repr = ""

\* C9: generate_alert raises ValidationError and leaves the Alert Store as it
\* was when the equipment id does not resolve, the alert type or the
\* severity is not in its enum, or the message is empty or not a string; it
\* adds an alert only when all four checks pass.
C9_GenerateValidates ==
    [][\A e \in EquipmentIds, t \in AlertTypeInputs, s \in SeverityInputs,
          m \in MessageInputs :
        GenerateAlert(e, t, s, m) =>
            /\ ClaimRejects(e, t, s, m) =>
                   /\ last'.exc = "ValidationError"
                   /\ ~last'.ok
                   /\ alerts' = alerts
            /\ ~ClaimRejects(e, t, s, m) =>
                   /\ last'.ok
                   /\ Len(alerts') = Len(alerts) + 1]_vars

\* C9 witness: a call was rejected for its message while alerts are stored
C9_Witness ==
    /\ last.op = "generate_alert"
    /\ last.exc = "ValidationError"
    /\ last.error = "Alert message must be a non-empty string"
    /\ Len(alerts) > 0

-----------------------------------------------------------------------------
(* Properties of the threshold evaluator and of ingestion *)

\* C5: for every configured sensor type and every value, check_thresholds
\* returns a violation descriptor if and only if value > max or value < min.
C5_ViolationIffOutOfBand ==
    evalOut # Pending =>
        LET config == DEFAULT_THRESHOLDS[evalIn.sensor_type]
            value == evalIn.value.v
        IN  (evalOut.kind = "Alert") <=> (value > config.max \/ value < config.min)

\* the severity the claim gives a violation of `value` against the bound
\* `bound` (# 0): p = 100 * |value - bound| / bound, whole percents and a rest
ClaimSeverity(value, bound) ==
    LET dist == IF value > bound THEN value - bound ELSE bound - value
        whole == (100 * dist) \div bound
        rest == (100 * dist) % bound
        Over(k) == whole > k \/ (whole = k /\ rest # 0)
    IN  IF bound < 0 THEN "low"
        ELSE IF Over(50) THEN "critical"
        ELSE IF Over(25) THEN "high"
        ELSE IF Over(10) THEN "medium"
        ELSE "low"

\* C6: the severity of a violation descriptor is critical for p > 50, high
\* for 25 < p <= 50, medium for 10 < p <= 25 and low for p <= 10, p being the
\* percent deviation from the crossed bound.
C6_SeverityBreakpoints ==
    evalOut.kind = "Alert" =>
        evalOut.severity = ClaimSeverity(evalOut.value, evalOut.threshold)

\* C6 witness: temperature 100 against max 80 is p = 25 exactly, and medium
C6_Witness ==
    /\ evalOut.kind = "Alert"
    /\ evalOut.sensor_type = "temperature"
    /\ evalOut.value = 100 /\ evalOut.threshold = 80
    /\ evalOut.severity = "medium"

\* is a stored reading outside the band of its sensor type
OutOfBand(r) ==
    \/ r.value > DEFAULT_THRESHOLDS[r.sensor_type].max
    \/ r.value < DEFAULT_THRESHOLDS[r.sensor_type].min

\* C8: the N violating readings ingested so far have produced N alerts with
\* pairwise distinct ids.
C8_OneAlertPerViolation ==
    /\ Len(alerts) = Cardinality({i \in DOMAIN readings : OutOfBand(readings[i])})
    /\ Cardinality({r.id : r \in Rows(alerts)}) = Len(alerts)

-----------------------------------------------------------------------------
(* Properties of the acknowledgment fields *)

\* C11: in every step, an alert whose acknowledged_by / acknowledged_at are
\* set keeps both values: they change at most once, from unset to the first
\* acknowledger's values, also when acknowledge_alert calls of different
\* users interleave.
C11_AcknowledgedFieldsWrittenOnce ==
    [][\A r \in Rows(alerts), n \in Rows(alerts') :
        (n.id = r.id /\ r.acknowledged_by # Null) =>
            /\ n.acknowledged_by = r.acknowledged_by
            /\ n.acknowledged_at = r.acknowledged_at]_vars

\* C12: an acknowledge_alert call on alert A leaves the number of alerts and
\* every other alert as they were, and of A it changes at most status,
\* acknowledged_by and acknowledged_at: equipment_id, alert_type, severity,
\* message and created_at (and the id) are unchanged.
C12_AcknowledgeFrame ==
    [][\A i \in AlertIds, u \in Users :
        AcknowledgeAlert(i, u) =>
            /\ Len(alerts') = Len(alerts)
            /\ \A k \in DOMAIN alerts :
                  IF alerts[k].id = i
                  THEN alerts'[k] =
                           [alerts[k] EXCEPT
                               !.status = alerts'[k].status,
                               !.acknowledged_by = alerts'[k].acknowledged_by,
                               !.acknowledged_at = alerts'[k].acknowledged_at]
                  ELSE alerts'[k] = alerts[k]]_vars

\* C12 witness: an acknowledge_alert call succeeded on one alert while an
\* alert of another severity is still active
C12_Witness ==
    /\ last.op = "acknowledge_alert" /\ last.ok
    /\ \E a \in Rows(alerts), b \in Rows(alerts) :
          /\ a.id = last.id /\ a.status = "acknowledged"
          /\ b.id # a.id /\ b.status = "active" /\ b.severity # a.severity

-----------------------------------------------------------------------------
(* Properties of concurrent requests on the shared connection *)

\* C13: when a generate_alert or record_reading call of a thread has
\* returned the id of the row it inserted, that row is in its table, however
\* the statements of the other thread's request (one that fails and rolls
\* back included) interleave with it.
C13_ReturnedInsertIsStored ==
    \A t \in Threads :
        req[t].pc = "returned" =>
            IF req[t].op = "generate_alert"
            THEN \E r \in Rows(alerts) : r.id = req[t].id
            ELSE \E r \in Rows(readings) : r.id = req[t].id

-----------------------------------------------------------------------------
(* Properties of the ingestion endpoint *)

\* C14: a POST /api/sensors/readings request answered 201 appends exactly
\* one reading (the request's) to the Reading Store; if the value is above
\* the maximum or below the minimum of its sensor type the Alert Store gains
\* exactly one alert, active, of type threshold_exceeded, with the
\* equipment_id, severity and message of the violation descriptor, and
\* otherwise the Alert Store is unchanged.
C14_SuccessfulIngestion ==
    [][\A e \in EquipmentIds \cup {Null}, t \in SensorTypeInputs, v \in ValueInputs :
        (last'.code = 201 /\ ApiRecordSensorReading(e, t, v)) =>
            LET reading == [equipment_id |-> e, sensor_type |-> t, value |-> v]
                descriptor == check_thresholds(DEFAULT_THRESHOLDS, reading)
                stored == readings'[Len(readings')]
                new == alerts'[Len(alerts')]
            IN  /\ Len(readings') = Len(readings) + 1
                /\ SubSeq(readings', 1, Len(readings)) = readings
                /\ stored.equipment_id = e /\ stored.sensor_type = t
                /\ stored.value = v.v
                /\ IF \/ v.v > DEFAULT_THRESHOLDS[t].max
                      \/ v.v < DEFAULT_THRESHOLDS[t].min
                   THEN /\ Len(alerts') = Len(alerts) + 1
                        /\ SubSeq(alerts', 1, Len(alerts)) = alerts
                        /\ new.status = "active"
                        /\ new.alert_type = "threshold_exceeded"
                        /\ new.equipment_id = e
                        /\ new.severity = descriptor.severity
                        /\ new.message = descriptor.message
                   ELSE alerts' = alerts]_vars

\* C14 witness: two requests were answered 201, one of a value in its band
\* and one of a temperature below its minimum, which left one alert
C14_Witness ==
    /\ last.op = "record_sensor_reading" /\ last.code = 201
    /\ Len(readings) = 2 /\ Len(alerts) = 1
    /\ \E r \in Rows(readings) : r.sensor_type = "temperature" /\ r.value = -20
    /\ \E r \in Rows(readings) : ~OutOfBand(r)

-----------------------------------------------------------------------------
(* Properties of validate_reading *)

\* the required fields of the claim that a reading lacks (absent or null)
ClaimMissing(r) ==
    (IF r.equipment_id \in {Absent, Null} THEN {"equipment_id"} ELSE {})
    \cup (IF r.sensor_type \in {Absent, Null} THEN {"sensor_type"} ELSE {})
    \cup (IF r.value \in {AbsentValue, NoValue} THEN {"value"} ELSE {})

\* an error text that names exactly the fields of m
ClaimMissingText(m) ==
    CASE m = {"equipment_id"} -> "Missing required fields: equipment_id"
      [] m = {"sensor_type"} -> "Missing required fields: sensor_type"
      [] m = {"value"} -> "Missing required fields: value"
      [] m = {"equipment_id", "sensor_type"} ->
             "Missing required fields: equipment_id, sensor_type"
      [] m = {"equipment_id", "value"} ->
             "Missing required fields: equipment_id, value"
      [] m = {"sensor_type", "value"} ->
             "Missing required fields: sensor_type, value"
      [] OTHER -> "Missing required fields: equipment_id, sensor_type, value"

C16_ValueMustBeFinite ==
    (/\ last.op = "validate_reading"
     /\ evalIn.value \in {NotANumber, FloatNaN, FloatInf, FloatNegInf})
        => ~last.ok

-----------------------------------------------------------------------------
(* Further properties of the threshold evaluator *)

\* severity rank of the claim: low < medium < high < critical
ClaimSeverityLevel(severity) ==
    CASE severity = "low" -> 1
      [] severity = "medium" -> 2
      [] severity = "high" -> 3
      [] OTHER -> 4

\* C17: when a value violates a bound of its sensor type, every value of
\* that sensor type that violates the same bound on the same side and lies
\* farther from it has a severity rank that is not lower.
C17_SeverityMonotone ==
    evalOut.kind = "Alert" =>
        \A v2 \in EvalValues(evalIn.sensor_type) :
            LET farther == check_thresholds(DEFAULT_THRESHOLDS,
                               [evalIn EXCEPT !.value = Num(v2)])
            IN  (/\ farther.kind = "Alert"
                 /\ farther.threshold = evalOut.threshold
                 /\ (v2 > evalOut.threshold) = (evalOut.value > evalOut.threshold)
                 /\ \/ v2 > evalOut.value /\ evalOut.value > evalOut.threshold
                    \/ v2 < evalOut.value /\ evalOut.value < evalOut.threshold)
                => ClaimSeverityLevel(farther.severity)
                       >= ClaimSeverityLevel(evalOut.severity)

\* C17 witness: pressure 180 against max 150 is medium, and a pressure
\* farther above the maximum is critical
C17_Witness ==
    /\ evalOut.kind = "Alert"
    /\ evalOut.sensor_type = "pressure" /\ evalOut.value = 180
    /\ evalOut.severity = "medium"
    /\ check_thresholds(DEFAULT_THRESHOLDS,
           [evalIn EXCEPT !.value = Num(300)]).severity = "critical"

\* C18: check_thresholds on a validated reading returns a violation
\* descriptor or 'no violation' and raises no error, also for a bound of 0.
C18_EvaluatorTotal ==
    evalOut.kind # "raise"

-----------------------------------------------------------------------------
(* Properties of failures *)

\* C19: when the store raises during record_reading (on the equipment lookup
\* or on the INSERT of a valid reading) or during acknowledge_alert (on the
\* lookup, or on the UPDATE or the second lookup for an active alert), the
\* caller gets that error: it is not turned into a failure result.
C19_StoreFailurePropagates ==
    [][/\ \A v \in FaultValueInputs, f \in RecordReadingFaults \ {NoFault} :
            ApiRecordSensorReadingOn("EQ1", "temperature", v, f)
                => last'.exc = StoreErrorType
       /\ \A i \in AlertIds, u \in Users, f \in AcknowledgeFaults \ {NoFault} :
            (AcknowledgeAlertOn(i, u, f) /\ (f = 1 \/ i \in ActiveIds(alerts)))
                => last'.exc = StoreErrorType]_vars

\* C20: a request to acknowledge an id that is not in the Alert Store is
\* answered 404 with the 'not found' failure, one to acknowledge an
\* acknowledged alert 400 with the 'already acknowledged' failure, and
\* both leave the Alert Store as it was.
C20_NotFoundAndConflict ==
    [][\A i \in AlertIds, u \in Users :
        ApiAcknowledgeAlertOn(i, u, NoFault) =>
            /\ i \notin {r.id : r \in Rows(alerts)} =>
                   /\ ~last'.ok /\ last'.code = 404
                   /\ last'.error = "Alert with ID " \o ToString(i) \o " not found"
                   /\ alerts' = alerts
            /\ i \in {r.id : r \in Rows(alerts)} \ ActiveIds(alerts) =>
                   /\ ~last'.ok /\ last'.code = 400
                   /\ last'.error = "Alert " \o ToString(i) \o " is already acknowledged"
                   /\ alerts' = alerts]_vars

\* C20 witness: a request to acknowledge an unknown id was answered 404
\* while the store holds an acknowledged alert and an active one
C20_Witness ==
    /\ last.op = "api_acknowledge_alert" /\ last.code = 404
    /\ last.id \notin {r.id : r \in Rows(alerts)}
    /\ \E r \in Rows(alerts) : r.status = "acknowledged"
    /\ \E r \in Rows(alerts) : r.status = "active"

-----------------------------------------------------------------------------
(* Properties of the queries *)

\* the ids of the rows of a listing
ListedIds(q) == {q[k].id : k \in DOMAIN q}

\* C21, calls made one after the other: a query made right after a
\* generate_alert call returned an id finds the new alert, active, in the active listing, in its equipment's listing,
\* in the listing of all alerts and by its id; a query made right after an
\* acknowledge_alert call succeeded no longer finds the alert in the active
\* listing and finds it acknowledged in the other three.
C21_QueriesReflectWrites ==
    [][\A tb \in TieBreaks :
        /\ \A e \in {"EQ1", "EQ2"}, s \in {"low", "critical"} :
             (GenerateAlert(e, "threshold_exceeded", s, Str("msg")) /\ last'.ok) =>
                 /\ last'.id \in ListedIds(get_active_alerts(alerts', tb))
                 /\ last'.id \in ListedIds(get_equipment_alerts(alerts', e, tb))
                 /\ last'.id \in ListedIds(get_all_alerts(alerts', tb))
                 /\ Len(AlertRepository_get_by_id(alerts', last'.id)) = 1
                 /\ AlertRepository_get_by_id(alerts', last'.id)[1].status = "active"
        /\ \A i \in AlertIds :
             (AcknowledgeAlert(i, "alice") /\ last'.ok) =>
                 LET got == AlertRepository_get_by_id(alerts', i)
                 IN  /\ i \notin ListedIds(get_active_alerts(alerts', tb))
                     /\ Len(got) = 1 /\ got[1].status = "acknowledged"
                     /\ got[1] \in Range(get_all_alerts(alerts', tb))
                     /\ got[1] \in Range(get_equipment_alerts(alerts',
                                             got[1].equipment_id, tb))]_vars

\* C21 witness: an alert of EQ2 was acknowledged after an alert of EQ1 was
\* generated, which is still active
C21_Witness ==
    /\ last.op = "acknowledge_alert" /\ last.ok
    /\ \E a \in Rows(alerts), b \in Rows(alerts) :
          /\ a.id = last.id /\ a.equipment_id = "EQ2" /\ a.status = "acknowledged"
          /\ b.equipment_id = "EQ1" /\ b.status = "active" /\ b.id > a.id

\* C21: a query made after a generate_alert call has returned finds the
\* alert the call returned the id of, active, in the active listing, in its
\* equipment's listing, in the listing of all alerts and by its id, also
\* when the call ran next to another thread's request on the connection.
C21_QueriesNeverStale ==
    \A t \in Threads, tb \in TieBreaks :
        (req[t].pc = "returned" /\ req[t].op = "generate_alert") =>
            /\ req[t].id \in ListedIds(get_active_alerts(alerts, tb))
            /\ req[t].id \in ListedIds(get_equipment_alerts(alerts, "EQ1", tb))
            /\ req[t].id \in ListedIds(get_all_alerts(alerts, tb))
            /\ Len(AlertRepository_get_by_id(alerts, req[t].id)) = 1

-----------------------------------------------------------------------------
(* Properties of the threshold table *)

\* C23: whatever table the SensorProcessor is constructed with (the empty
\* table included), check_thresholds returns None for a reading whose sensor
\* type is not a key of that table, for every value.
C23_AbsentTypeNeverViolates ==
    (/\ evalOut # Pending
     /\ evalIn.thresholds.type = "dict"
     /\ evalIn.sensor_type \notin DOMAIN evalIn.thresholds.table) =>
        evalOut = NoAlert

\* the processor was constructed with {temperature: {max: 80, min: -10}} and
\* has evaluated a temperature reading of 100
ReadingOf100 ==
    /\ evalOut # Pending
    /\ evalIn.thresholds = Thresholds([temperature |-> [max |-> 80, min |-> -10]])
    /\ evalIn.sensor_type = "temperature"
    /\ evalIn.value = Num(100)

\* the descriptor is a violation of the maximum 80 by exactly 25 percent
ViolationBy25Percent ==
    /\ evalOut.kind = "Alert"
    /\ evalOut.threshold = 80
    /\ evalOut.message = Str("temperature reading 100.0 exceeds maximum threshold 80.0")
    /\ LET p == PercentOver(evalOut.value, evalOut.threshold, "max")
       IN  p.num = 25 * p.den

\* C24 as stated: with the table {temperature: {max: 80, min: -10}} a
\* temperature reading of 100 is a violation above the maximum, 25 percent
\* over it, of severity high.
C24_ReadingOf100IsHigh ==
    ReadingOf100 => (ViolationBy25Percent /\ evalOut.severity = "high")

\* C24 amended: with the table {temperature: {max: 80, min: -10}} a
\* temperature reading of 100 is a violation above the maximum, 25 percent
\* over it, of severity medium (25 is not above the breakpoint 25).
C24_ReadingOf100IsMedium ==
    ReadingOf100 => (ViolationBy25Percent /\ evalOut.severity = "medium")

\* C24 witness: the reading of 100 was evaluated against that table
C24_Witness == ReadingOf100 /\ evalOut.kind = "Alert"

\* the percentage p (den # 0) is not negative; p is below q (equal den)
PercentNonNegative(p) == IF p.den > 0 THEN p.num >= 0 ELSE p.num <= 0
PercentBelow(p, q) == IF p.den > 0 THEN p.num < q.num ELSE p.num > q.num

\* C25: the percent deviation computed for a violation is not negative, and
\* a value that violates the same bound farther from it has a larger percent
\* deviation and a severity that is not lower, whatever the sign of the bound.
C25_PercentIsGrowingMagnitude ==
    evalOut.kind = "Alert" =>
        LET side == IF evalOut.value > evalOut.threshold THEN "max" ELSE "min"
            percent_over == PercentOver(evalOut.value, evalOut.threshold, side)
        IN  /\ PercentNonNegative(percent_over)
            /\ \A v2 \in EvalValues(evalIn.sensor_type) :
                  LET farther == check_thresholds(DEFAULT_THRESHOLDS,
                                     [evalIn EXCEPT !.value = Num(v2)])
                  IN  (/\ farther.kind = "Alert"
                       /\ farther.threshold = evalOut.threshold
                       /\ \/ side = "max" /\ v2 > evalOut.value
                          \/ side = "min" /\ v2 < evalOut.value)
                      => /\ PercentBelow(percent_over,
                                PercentOver(v2, evalOut.threshold, side))
                         /\ ClaimSeverityLevel(farther.severity)
                                >= ClaimSeverityLevel(evalOut.severity)

-----------------------------------------------------------------------------
(* Further properties of record_reading *)

\* a reading that fails validation, in the claim's words: a required field
\* is missing, the equipment is unknown, the sensor type is outside the
\* whitelist or the value is no number
ClaimInvalid(e, t, v) ==
    \/ e = Null \/ t = Null \/ v = NoValue
    \/ e \notin equipment
    \/ t \notin Range(VALID_SENSOR_TYPES)
    \/ v = NotANumber

\* C26: in every state, record_reading of a reading that fails validation
\* returns a failure Result with the validation message, leaves the Reading
\* Store as it was and returns no violation; and when the evaluation of a
\* valid reading raises, the reading is in the Reading Store already.
C26_ValidationBeforePersistence ==
    \A e \in EquipmentIds \cup {Null}, t \in SensorTypeInputs, v \in ValueInputs :
        LET reading == [equipment_id |-> e, sensor_type |-> t, value |-> v]
            result == record_reading(equipment, DEFAULT_THRESHOLDS, readings,
                                     clock, reading, NoFault)
        IN  IF ClaimInvalid(e, t, v)
            THEN /\ ~result.success
                 /\ result.error = validate_reading(equipment, reading)
                 /\ result.error # "ok"
                 /\ result.reading_id = 0
                 /\ result.store = readings
                 /\ result.alert = NoAlert
            ELSE check_thresholds(DEFAULT_THRESHOLDS, reading).kind = "raise" =>
                 /\ Len(result.store) = Len(readings) + 1
                 /\ SubSeq(result.store, 1, Len(readings)) = readings
                 /\ result.store[Len(result.store)].value = v.v

\* C26 witness: after a reading was stored, a request with a value that is
\* no number was refused and the Reading Store still has the one reading
C26_Witness ==
    /\ last.op = "record_sensor_reading" /\ last.code = 400
    /\ last.error = "Sensor value must be numeric"
    /\ Len(readings) = 1

\* C27: for every validated reading, record_reading under the default
\* thresholds either returns a failure Result and leaves the Reading Store as
\* it was, or appends the reading and returns success with its id.
C27_AllOrNothing ==
    \A e \in equipment, t \in SensorTypeInputs \cap Range(VALID_SENSOR_TYPES),
       v \in {w \in ValueInputs : w.type = "float"} :
        LET reading == [equipment_id |-> e, sensor_type |-> t, value |-> v]
            result == record_reading(equipment, DEFAULT_THRESHOLDS, readings,
                                     clock, reading, NoFault)
        IN  /\ ~result.success => result.store = readings
            /\ result.store # readings =>
                  /\ result.success
                  /\ result.reading_id = result.store[Len(result.store)].id

-----------------------------------------------------------------------------
(* Properties of the two callers of record_reading *)

\* C28: whenever record_reading succeeds, the sensor form and the API
\* endpoint both report success; they call generate_alert (the Alert Store
\* gains one alert) if the Result carries a violation descriptor, and do not
\* call it (the Alert Store is unchanged) if its alert is None.
C28_CallersAgreeOnNoViolation ==
    [][\A e \in WebEquipmentInputs, t \in WebSensorTypeInputs, v \in WebValueInputs :
        LET result == record_reading(equipment, DEFAULT_THRESHOLDS, readings, clock,
                          [equipment_id |-> e, sensor_type |-> t, value |-> v],
                          NoFault)
        IN  ((/\ last'.op \in {"sensor_record", "record_sensor_reading"}
              /\ float_returns(v)
              /\ result.success)
             /\ (WebSensorRecord(e, t, v) \/ ApiRecordSensorReading(e, t, v))) =>
                /\ last'.ok
                /\ IF result.alert.kind = "Alert"
                   THEN Len(alerts') = Len(alerts) + 1
                   ELSE alerts' = alerts]_vars

-----------------------------------------------------------------------------
(* Properties of the acknowledgement fields *)

\* C29: whatever "user" value the acknowledge endpoint accepts, an alert of
\* the Alert Store has status acknowledged if and only if its acknowledged_by
\* and its acknowledged_at are both set, and an active alert has neither.
C29_AcknowledgedIffFieldsSet ==
    \A r \in Rows(alerts) :
        /\ r.status \in {"active", "acknowledged"}
        /\ (r.status = "acknowledged") <=>
               (r.acknowledged_by # Null /\ r.acknowledged_at # NullTime)
        /\ r.status = "active" =>
               (r.acknowledged_by = Null /\ r.acknowledged_at = NullTime)

-----------------------------------------------------------------------------
(* Properties of the violation descriptor *)

\* C30: a violation descriptor returned by check_thresholds has the alert
\* type threshold_exceeded, a severity among low, medium, high, critical and
\* a non-empty string as message; generate_alert applied to it adds the
\* alert while its equipment resolves, and raises ValidationError only for
\* the equipment when it does not resolve any more.
C30_DescriptorFitsGenerateAlert ==
    evalOut.kind = "Alert" =>
        LET g == generate_alert(equipment, alerts, clock, evalOut.equipment_id,
                     evalOut.alert_type, evalOut.severity, evalOut.message)
            gone == generate_alert(equipment \ {evalOut.equipment_id}, alerts, clock,
                        evalOut.equipment_id, evalOut.alert_type, evalOut.severity,
                        evalOut.message)
        IN  /\ evalOut.alert_type = "threshold_exceeded"
            /\ evalOut.severity \in {"low", "medium", "high", "critical"}
            /\ evalOut.message.type = "str" /\ evalOut.message.repr # ""
            /\ evalOut.equipment_id = evalIn.equipment_id
            /\ g.exc = "" /\ Len(g.store) = Len(alerts) + 1
            /\ g.store[Len(g.store)].severity = evalOut.severity
            /\ gone.exc = "ValidationError"
            /\ gone.error = validate_alert_data({}, evalOut.equipment_id,
                                "threshold_exceeded", "low", Str("m"))
            /\ gone.store = alerts

\* C30 witness: a descriptor of severity critical for a humidity above the
\* maximum of its sensor type
C30_Witness ==
    /\ evalOut.kind = "Alert"
    /\ evalOut.severity = "critical"
    /\ evalOut.sensor_type = "humidity"
    /\ evalOut.value > DEFAULT_THRESHOLDS.humidity.max

====
